---- MODULE Spec2Model ----
(***************************************************************************)
(* A model of zsh_codex: create_completion.py (one completion run of       *)
(* main(), the path extraction and the directory/file classification) and  *)
(* extract_paths.py.  Text is a sequence of one-character strings.         *)
(***************************************************************************)
EXTENDS Integers, Sequences, FiniteSets, TLC

\* ------------------------------------------------------------------ bounds
MaxBuf == 2
MaxReply == 3
CursorRange == 3
MaxText == 4
MaxPaths == 3
MaxMatches == 3

\* ------------------------------------------------------- text, as Python
RECURSIVE StrUpTo(_, _)
StrUpTo(A, n) ==
  IF n = 0 THEN {<<>>}
  ELSE LET S == StrUpTo(A, n - 1)
       IN  S \cup {Append(s, c) : s \in {t \in S : Len(t) = n - 1}, c \in A}

Min(a, b) == IF a < b THEN a ELSE b
Max(a, b) == IF a > b THEN a ELSE b

\* The index a slice bound i denotes in a sequence of length n: a negative
\* bound counts from the end, and both ends are clamped.
SliceIndex(i, n) == IF i < 0 THEN Max(i + n, 0) ELSE Min(i, n)

\* s[:i] and s[i:]
SliceTo(s, i) == SubSeq(s, 1, SliceIndex(i, Len(s)))
SliceFromNext(s, i) == SubSeq(s, SliceIndex(i, Len(s)) + 2, Len(s))
SliceFrom(s, i) == SubSeq(s, SliceIndex(i, Len(s)) + 1, Len(s))

\* s.startswith(p), s.endswith(p)
startswith(s, p) == Len(p) <= Len(s) /\ SubSeq(s, 1, Len(p)) = p
endswith(s, p) == Len(p) <= Len(s) /\ SubSeq(s, Len(s) - Len(p) + 1, Len(s)) = p

\* s.rsplit("\n", 1)[-1]: what follows the last line break, or all of s
rsplit_last(s) ==
  LET breaks == {i \in 1..Len(s) : s[i] = "\n"}
  IN  IF breaks = {} THEN s
      ELSE SubSeq(s, (CHOOSE i \in breaks : \A j \in breaks : j <= i) + 1, Len(s))

\* s.strip("\n")
strip_newlines(s) ==
  LET keep == {i \in 1..Len(s) : s[i] # "\n"}
  IN  IF keep = {} THEN <<>>
      ELSE SubSeq(s, CHOOSE i \in keep : \A j \in keep : i <= j,
                     CHOOSE i \in keep : \A j \in keep : j <= i)

\* ------------------------------------------------- one run of main()
VARIABLES
  pc,               \* the program point of the run
  api,              \* args.api
  OpenAI, genai,    \* the optional imports: TRUE when the library was imported
  config_file,      \* the chosen backend's configuration file
  stdin,            \* the text waiting on standard input
  cursor_position,  \* args.cursor_position
  buffer, buffer_prefix, buffer_suffix, full_command, line_prefix,
  request,          \* the command text handed to the backend
  response,         \* the backend's raw reply
  completion,
  calls,            \* how many times the backend was invoked
  written,          \* the files this run has written
  messages,         \* what print() wrote
  stdout,           \* what sys.stdout.write wrote
  exit_status,
  text, matches, extracted,                \* extract_paths
  paths, cwd, fs, valid_dirs, valid_files  \* the classification

main_vars == <<pc, api, OpenAI, genai, config_file, stdin, cursor_position, buffer,
               buffer_prefix, buffer_suffix, full_command, line_prefix, request,
               response, completion, calls, written, messages, stdout, exit_status>>
path_vars == <<text, matches, extracted>>
class_vars == <<paths, cwd, fs, valid_dirs, valid_files>>
vars == <<main_vars, path_vars, class_vars>>

zsh_prefix == <<"#", "!", "/", "b", "i", "n", "/", "z", "s", "h", "\n", "\n">>

\* The buffers, cursors and replies of the documented scenarios.
EchoBuffer == <<"e", "c", "h", "o", " ">>
EchoReply == <<"e", "c", "h", "o", " ", "h", "e", "l", "l", "o", " ", "w", "o", "r", "l", "d">>
EchoResult == <<"h", "e", "l", "l", "o", " ", "w", "o", "r", "l", "d">>
RedirectBuffer == <<" ", ">", " ", "o", "u", "t", ".", "t", "x", "t">>
RedirectReply == <<"l", "s", " ", "-", "l", "a", " ", ">", " ", "o", "u", "t", ".", "t", "x", "t">>
ListBuffer == <<"l", "i", "s", "t", " ", "f", "i", "l", "e", "s", "\n">>
ListReply == <<"#", "!", "/", "b", "i", "n", "/", "z", "s", "h", "\n", "\n", "l", "i", "s", "t", " ", "f", "i", "l", "e", "s", "\n", "l", "s", " ", "-", "l", "a">>
LsResult == <<"l", "s", " ", "-", "l", "a">>
ScenarioInputs == {<<EchoBuffer, 5>>, <<RedirectBuffer, 0>>, <<ListBuffer, 11>>}
ScenarioReplies == {EchoReply, RedirectReply, ListReply}

TextAlphabet == {"a", "\n"}
Inputs == (StrUpTo(TextAlphabet, MaxBuf) \X (-CursorRange..CursorRange)) \cup ScenarioInputs
Replies ==
  {m \o r : m \in {<<>>, zsh_prefix}, r \in StrUpTo(TextAlphabet, MaxReply)}
    \cup ScenarioReplies

\* What the configuration file can hold: nothing (no file), text configparser
\* rejects, no section for the backend, a section without the credential key,
\* the template's empty credential, a credential.
ConfigStates == {"absent", "unparsable", "nosection", "nokey", "emptykey", "ok"}

NoPathState ==
  /\ text = <<>> /\ matches = <<>> /\ extracted = <<>>
  /\ paths = <<>> /\ cwd = <<>> /\ fs = <<>> /\ valid_dirs = <<>> /\ valid_files = <<>>

Init ==
  /\ pc = "start"
  /\ api \in {"openai", "gemini"}
  /\ OpenAI \in BOOLEAN
  /\ genai \in BOOLEAN
  /\ config_file \in ConfigStates
  /\ \E input \in Inputs : stdin = input[1] /\ cursor_position = input[2]
  /\ buffer = <<>> /\ buffer_prefix = <<>> /\ buffer_suffix = <<>>
  /\ full_command = <<>> /\ line_prefix = <<>>
  /\ request = <<>> /\ response = <<>> /\ completion = <<>>
  /\ calls = 0
  /\ written = {}
  /\ messages = <<>>
  /\ stdout = <<>>
  /\ exit_status = "running"
  /\ NoPathState

\* sys.exit(1) after print(msg)
ExitWith(msg) ==
  /\ messages' = Append(messages, msg)
  /\ exit_status' = "sys_exit_1"
  /\ pc' = "exited"

\* an exception nothing catches
Uncaught ==
  /\ exit_status' = "uncaught_exception"
  /\ pc' = "crashed"

\* main: the optional-import checks
CheckLibrary ==
  /\ pc = "start"
  /\ IF (api = "openai" /\ ~OpenAI) \/ (api = "gemini" /\ ~genai)
     THEN ExitWith("library_not_installed")
     ELSE /\ pc' = "create_template"
          /\ UNCHANGED <<messages, exit_status>>
  /\ UNCHANGED <<api, OpenAI, genai, config_file, stdin, cursor_position, buffer,
                 buffer_prefix, buffer_suffix, full_command, line_prefix, request,
                 response, completion, calls, written, stdout>>
  /\ UNCHANGED <<path_vars, class_vars>>

CreateTemplateNoExit ==
  /\ pc = "create_template"
  /\ IF config_file = "absent"
     THEN /\ config_file' = "emptykey"
          /\ written' = written \cup {"config_file"}
          /\ messages' = Append(messages, "config_created")
     ELSE UNCHANGED <<config_file, written, messages>>
  /\ pc' = "read_config"
  /\ UNCHANGED <<api, OpenAI, genai, stdin, cursor_position, buffer,
                 buffer_prefix, buffer_suffix, full_command, line_prefix, request,
                 response, completion, calls, stdout, exit_status>>
  /\ UNCHANGED <<path_vars, class_vars>>

\* create_template_ini_file: the file is written only when it is not there;
\* open(file_path, "w") can fail (no configuration directory).
CreateTemplateIniFile ==
  /\ pc = "create_template"
  /\ \/ /\ config_file # "absent"
        /\ pc' = "read_config"
        /\ UNCHANGED <<config_file, written, messages, exit_status>>
     \/ /\ config_file = "absent"
        /\ config_file' = "emptykey"
        /\ written' = written \cup {"config_file"}
        /\ ExitWith("config_created")
     \/ /\ config_file = "absent"
        /\ Uncaught
        /\ UNCHANGED <<config_file, written, messages>>
  /\ UNCHANGED <<api, OpenAI, genai, stdin, cursor_position, buffer,
                 buffer_prefix, buffer_suffix, full_command, line_prefix, request,
                 response, completion, calls, stdout>>
  /\ UNCHANGED <<path_vars, class_vars>>

\* initialize_api after the template step: config.read, config[section],
\* api_config[key], the client.  Nothing looks at the credential's value: an
\* empty one is handed to the client like any other.
ReadConfig ==
  /\ pc = "read_config"
  /\ IF config_file \in {"emptykey", "ok"}
     THEN pc' = "read_stdin" /\ UNCHANGED exit_status
     ELSE Uncaught
  /\ UNCHANGED <<api, OpenAI, genai, config_file, stdin, cursor_position, buffer,
                 buffer_prefix, buffer_suffix, full_command, line_prefix, request,
                 response, completion, calls, written, messages, stdout>>
  /\ UNCHANGED <<path_vars, class_vars>>

\* main: read the buffer and split it at the cursor
ReadBuffer ==
  /\ pc = "read_stdin"
  /\ buffer' = stdin
  /\ buffer_prefix' = SliceTo(buffer', cursor_position)
  /\ buffer_suffix' = SliceFrom(buffer', cursor_position)
  /\ full_command' = zsh_prefix \o buffer_prefix' \o buffer_suffix'
  /\ pc' = "get_completion"
  /\ UNCHANGED <<api, OpenAI, genai, config_file, stdin, cursor_position,
                 line_prefix, request, response, completion, calls, written,
                 messages, stdout, exit_status>>
  /\ UNCHANGED <<path_vars, class_vars>>

\* get_completion: the context the openai branch gathers before the call can
\* fail (HOME, ~/.zsh_history, os.listdir(cwd)); the backend is invoked once
\* and either raises or replies; the openai branch then writes send.txt and
\* response.txt in the process's working directory.
FrameOfCall ==
  /\ UNCHANGED <<api, OpenAI, genai, config_file, stdin, cursor_position, buffer,
                 buffer_prefix, buffer_suffix, full_command, line_prefix, messages,
                 stdout>>
  /\ UNCHANGED <<path_vars, class_vars>>

GetCompletionRetry ==
  /\ pc = "get_completion"
  /\ \/ /\ api = "openai"
        /\ Uncaught
        /\ UNCHANGED <<request, response, completion, calls, written>>
     \/ /\ calls' = calls + 2
        /\ request' = full_command
        /\ Uncaught
        /\ UNCHANGED <<response, completion, written>>
     \/ \E reply \in Replies :
          /\ calls' = calls + 1
          /\ request' = full_command
          /\ response' = reply
          /\ completion' = reply
          /\ written' = written
          /\ pc' = "strip_marker"
          /\ UNCHANGED exit_status
  /\ FrameOfCall

GetCompletion ==
  /\ pc = "get_completion"
  /\ \/ /\ api = "openai"
        /\ Uncaught
        /\ UNCHANGED <<request, response, completion, calls, written>>
     \/ /\ calls' = calls + 1
        /\ request' = full_command
        /\ Uncaught
        /\ UNCHANGED <<response, completion, written>>
     \/ /\ api = "openai"
        /\ calls' = calls + 1
        /\ request' = full_command
        /\ \E done \in {{}, {"send.txt"}} : written' = written \cup done
        /\ Uncaught
        /\ UNCHANGED <<response, completion>>
     \/ \E reply \in Replies :
          /\ calls' = calls + 1
          /\ request' = full_command
          /\ response' = reply
          /\ completion' = reply
          /\ written' = IF api = "openai"
                        THEN written \cup {"send.txt", "response.txt"}
                        ELSE written
          /\ pc' = "strip_marker"
          /\ UNCHANGED exit_status
  /\ FrameOfCall

\* The three trims of main, as functions of the text they are given.
strip_marker_short(c) ==
  IF startswith(c, zsh_prefix) THEN SliceFrom(c, Len(zsh_prefix) - 1) ELSE c

strip_marker(c) ==
  IF startswith(c, zsh_prefix) THEN SliceFrom(c, Len(zsh_prefix)) ELSE c

strip_leading_both(c, bp, lp) ==
  LET c1 == IF startswith(c, bp) THEN SliceFrom(c, Len(bp)) ELSE c
  IN  IF startswith(c1, lp) THEN SliceFrom(c1, Len(lp)) ELSE c1

strip_leading(c, bp, lp) ==
  IF startswith(c, bp) THEN SliceFrom(c, Len(bp))
  ELSE IF startswith(c, lp) THEN SliceFrom(c, Len(lp))
  ELSE c

strip_trailing_unguarded(c, suffix) ==
  IF endswith(c, suffix) THEN SliceTo(c, -Len(suffix)) ELSE c

strip_trailing(c, suffix) ==
  IF suffix # <<>> /\ endswith(c, suffix) THEN SliceTo(c, -Len(suffix)) ELSE c

FrameOfTrim ==
  /\ UNCHANGED <<api, OpenAI, genai, config_file, stdin, cursor_position, buffer,
                 buffer_prefix, buffer_suffix, full_command, request, response,
                 calls, written, messages>>
  /\ UNCHANGED <<path_vars, class_vars>>

\* main: if completion.startswith(zsh_prefix)
StripMarker ==
  /\ pc = "strip_marker"
  /\ completion' = strip_marker(completion)
  /\ pc' = "strip_leading"
  /\ UNCHANGED <<line_prefix, stdout, exit_status>>
  /\ FrameOfTrim

\* main: line_prefix and the loop over [buffer_prefix, line_prefix]
StripLeading ==
  /\ pc = "strip_leading"
  /\ line_prefix' = rsplit_last(buffer_prefix)
  /\ completion' = strip_leading(completion, buffer_prefix, line_prefix')
  /\ pc' = "strip_trailing"
  /\ UNCHANGED <<stdout, exit_status>>
  /\ FrameOfTrim

\* main: if buffer_suffix and completion.endswith(buffer_suffix)
StripTrailing ==
  /\ pc = "strip_trailing"
  /\ completion' = strip_trailing(completion, buffer_suffix)
  /\ pc' = "write"
  /\ UNCHANGED <<line_prefix, stdout, exit_status>>
  /\ FrameOfTrim

\* main: completion.strip("\n") and sys.stdout.write
WriteCompletion ==
  /\ pc = "write"
  /\ completion' = strip_newlines(completion)
  /\ stdout' = stdout \o completion'
  /\ exit_status' = "ok"
  /\ pc' = "done"
  /\ UNCHANGED line_prefix
  /\ FrameOfTrim

Next ==
  \/ CheckLibrary
  \/ CreateTemplateIniFile
  \/ ReadConfig
  \/ ReadBuffer
  \/ GetCompletion
  \/ StripMarker
  \/ StripLeading
  \/ StripTrailing
  \/ WriteCompletion

Spec == Init /\ [][Next]_vars

\* ------------------------------------------------ the claims about main()
Drop(s, n) == SubSeq(s, n + 1, Len(s))
IsPrefixOf(p, s) == \E k \in 0..Len(s) : p = SubSeq(s, 1, k)
IsSuffixOf(q, s) == \E k \in 0..Len(s) : q = Drop(s, k)
IsLastLine(l, p) ==
  /\ \A i \in 1..Len(l) : l[i] # "\n"
  /\ \E head \in {SubSeq(p, 1, k) : k \in 0..Len(p)} :
       /\ p = head \o l
       /\ head = <<>> \/ head[Len(head)] = "\n"
LastLineOf(p) == CHOOSE l \in {Drop(p, k) : k \in 0..Len(p)} : IsLastLine(l, p)
AfterMarkerOf(r) == IF IsPrefixOf(zsh_prefix, r) THEN Drop(r, Len(zsh_prefix)) ELSE r
AfterLeadingOf(c, bp) ==
  IF IsPrefixOf(bp, c) THEN Drop(c, Len(bp))
  ELSE IF IsPrefixOf(LastLineOf(bp), c) THEN Drop(c, Len(LastLineOf(bp)))
  ELSE c

Terminated == pc \in {"exited", "crashed", "done"}
LibraryInstalled == (api = "openai" /\ OpenAI) \/ (api = "gemini" /\ genai)

\* C1: right after the leading-overlap step the reply (marker already removed)
\* has lost exactly one leading occurrence of the full prefix if it started
\* with it, else exactly one of line_prefix if it started with that, else
\* nothing; prefix "echo ", reply "echo hello world" prints "hello world".
C1_LeadingOverlap ==
  /\ pc = "strip_trailing" =>
       LET c0 == AfterMarkerOf(response)
       IN  /\ IsLastLine(line_prefix, buffer_prefix)
           /\ IF IsPrefixOf(buffer_prefix, c0) THEN c0 = buffer_prefix \o completion
              ELSE IF IsPrefixOf(line_prefix, c0) THEN c0 = line_prefix \o completion
              ELSE completion = c0
  /\ (pc = "done" /\ buffer = EchoBuffer /\ cursor_position = 5 /\ response = EchoReply)
       => stdout = EchoResult

\* C1 witness: the full prefix matched and was removed, and what is left
\* starts with line_prefix again: the second repetition is kept.
C1_Witness ==
  /\ pc = "strip_trailing"
  /\ buffer_prefix # <<>> /\ line_prefix # <<>>
  /\ AfterMarkerOf(response) = buffer_prefix \o completion
  /\ IsPrefixOf(line_prefix, completion)

\* C2: when the prefix step is about to run, a reply that began with the
\* marker has lost exactly the marker and any other reply is untouched; the
\* "list files" scenario prints "ls -la".
C2_MarkerFirst ==
  /\ pc = "strip_leading" =>
       IF IsPrefixOf(zsh_prefix, response)
       THEN response = zsh_prefix \o completion
       ELSE completion = response
  /\ (pc = "done" /\ buffer = ListBuffer /\ cursor_position = 11 /\ response = ListReply)
       => stdout = LsResult

\* C2 witness: the "list files" scenario has run to its end.
C2_Witness ==
  /\ pc = "done" /\ buffer = ListBuffer /\ cursor_position = 11
  /\ response = ListReply /\ stdout = LsResult

\* C3: right after the trailing-overlap step, the reply as the leading step
\* left it has lost exactly one trailing occurrence of a non-empty suffix it
\* ended with, and is unchanged otherwise; suffix " > out.txt", reply
\* "ls -la > out.txt" prints "ls -la".
C3_TrailingOverlap ==
  /\ pc = "write" =>
       LET c1 == AfterLeadingOf(AfterMarkerOf(response), buffer_prefix)
       IN  IF buffer_suffix # <<>> /\ IsSuffixOf(buffer_suffix, c1)
           THEN c1 = completion \o buffer_suffix
           ELSE completion = c1
  /\ (pc = "done" /\ buffer = RedirectBuffer /\ cursor_position = 0
        /\ response = RedirectReply)
       => stdout = LsResult

\* C3 witness: the redirect scenario has run to its end.
C3_Witness ==
  /\ pc = "done" /\ buffer = RedirectBuffer /\ cursor_position = 0
  /\ response = RedirectReply /\ stdout = LsResult

\* C4: the backend is invoked at most once in a run; a run that printed a
\* completion invoked it exactly once, and a run ended by sys.exit (library
\* missing, configuration file created) never invoked it.
C4_BackendOnce ==
  /\ calls <= 1
  /\ pc = "done" => calls = 1
  /\ pc = "exited" => calls = 0

\* C4 witness: a run has printed its completion.
C4_Witness == pc = "done" /\ calls = 1 /\ stdout # <<>>

BootstrapExit ==
  /\ exit_status = "sys_exit_1"
  /\ messages = <<"config_created">>
  /\ calls = 0

\* C5 as claimed: a run that ends with a configuration file whose section is
\* missing or whose credential is empty (the fresh template, or a file that
\* was already there) has ended by the bootstrap exit, the backend not invoked.
C5_Original ==
  (Terminated /\ LibraryInstalled /\ config_file \in {"nosection", "emptykey"})
    => BootstrapExit

\* C5 amended: the template is written only by a run that then takes the
\* bootstrap exit, and the bootstrap exit is taken only by a run that wrote it;
\* a run that found no file and could not write it, or found a file without
\* section or key, ends in an uncaught error with the backend never invoked;
\* a run that invoked the backend had a file with the key in it, empty or not,
\* and did not write it.
C5_Bootstrap ==
  /\ "config_file" \in written => (BootstrapExit /\ config_file = "emptykey")
  /\ (Len(messages) > 0 /\ messages[Len(messages)] = "config_created")
       => ("config_file" \in written /\ BootstrapExit)
  /\ (Terminated /\ LibraryInstalled
        /\ config_file \in {"absent", "unparsable", "nosection", "nokey"})
       => (exit_status = "uncaught_exception" /\ calls = 0 /\ messages = <<>>
             /\ written = {})
  /\ calls > 0 => (config_file \in {"emptykey", "ok"} /\ "config_file" \notin written)

\* C5 witness: the template was written and the run took the bootstrap exit.
C5_Witness == pc = "exited" /\ "config_file" \in written /\ BootstrapExit

\* C8: once the buffer is split, prefix + suffix is the buffer read from
\* standard input, and the command text built and sent is the marker followed
\* by it, for every cursor position.
C8_SplitInvariant ==
  /\ full_command # <<>> =>
       /\ buffer = stdin
       /\ buffer_prefix \o buffer_suffix = buffer
       /\ full_command = zsh_prefix \o buffer
  /\ calls > 0 => request = zsh_prefix \o stdin

\* C8 witness: a negative cursor split the buffer in two non-empty parts and
\* the command was sent.
C8_Witness ==
  /\ cursor_position < 0 /\ calls = 1
  /\ buffer_prefix # <<>> /\ buffer_suffix # <<>>

\* C10 as claimed: a run that found its configuration file with a credential
\* and printed a completion made one backend call, printed nothing else and
\* wrote no file.
C10_NoFilesystemChange ==
  (pc = "done" /\ config_file = "ok") =>
    (calls = 1 /\ messages = <<>> /\ written = {})

\* ------------------------------------------------------------ extract_paths
\* The characters the texts are drawn from: a dot, a slash, a letter, a
\* blank, a colon, a backslash, a comma.
PathAlphabet == {".", "/", "a", " ", ":", "\\", ","}

IsSpace(c) == c = " "                       \* \s
IsWordChar(c) == c = "a"                    \* \w
IsLetter(c) == c = "a"                      \* [a-zA-Z]
IsSegmentChar(c) == c \notin {"\\", " ", ","}   \* [^\\\s,]

\* \b between s[k] and s[k+1] (k = 0: before the text; k = Len(s): after it)
WordBoundary(s, k) ==
  (k >= 1 /\ IsWordChar(s[k])) # (k < Len(s) /\ IsWordChar(s[k + 1]))

\* A greedy run from index i: the last index e >= i - 1 with s[i..e] all in
\* the class (\S+, [^\\\s,]+).
RECURSIVE NonSpaceRunEnd(_, _)
NonSpaceRunEnd(s, i) ==
  IF i <= Len(s) /\ ~IsSpace(s[i]) THEN NonSpaceRunEnd(s, i + 1) ELSE i - 1

RECURSIVE SegmentRunEnd(_, _)
SegmentRunEnd(s, i) ==
  IF i <= Len(s) /\ IsSegmentChar(s[i]) THEN SegmentRunEnd(s, i + 1) ELSE i - 1

\* Each alternative tried at index i: the last index of its match, 0 if none.
\* \.{1,2}/\S+
DotSlashEnd(s, i) ==
  LET at(k, c) == k <= Len(s) /\ s[k] = c
  IN  IF at(i, ".") /\ at(i + 1, ".") /\ at(i + 2, "/")
         /\ NonSpaceRunEnd(s, i + 3) >= i + 3
      THEN NonSpaceRunEnd(s, i + 3)
      ELSE IF at(i, ".") /\ at(i + 1, "/") /\ NonSpaceRunEnd(s, i + 2) >= i + 2
      THEN NonSpaceRunEnd(s, i + 2)
      ELSE 0

\* /\S+
SlashEnd(s, i) ==
  IF s[i] = "/" /\ NonSpaceRunEnd(s, i + 1) >= i + 1
  THEN NonSpaceRunEnd(s, i + 1)
  ELSE 0

\* \b\S+/\S+\b: both runs are greedy, so the slash is the last one of the run
\* that leaves a match, and the end the last word boundary after it.
TokenEnd(s, i) ==
  LET r == NonSpaceRunEnd(s, i)
      ends(j) == {k \in (j + 1)..r : WordBoundary(s, k)}
      slashes == {j \in (i + 1)..(r - 1) : s[j] = "/" /\ ends(j) # {}}
  IN  IF WordBoundary(s, i - 1) /\ slashes # {}
      THEN LET j == CHOOSE x \in slashes : \A y \in slashes : y <= x
           IN  CHOOSE k \in ends(j) : \A y \in ends(j) : y <= k
      ELSE 0

\* (?:[^\\\s,]+\\?)*[^\\\s,]+ from index i: segments joined by single
\* backslashes, as far as they go.
RECURSIVE SegmentsEnd(_, _)
SegmentsEnd(s, i) ==
  LET e == SegmentRunEnd(s, i)
  IN  IF e < i THEN 0
      ELSE IF e + 2 <= Len(s) /\ s[e + 1] = "\\" /\ IsSegmentChar(s[e + 2])
      THEN SegmentsEnd(s, e + 2)
      ELSE e

\* [a-zA-Z]:\\(?:[^\\\s,]+\\?)*[^\\\s,]+
WindowsEnd(s, i) ==
  IF i + 3 <= Len(s) /\ IsLetter(s[i]) /\ s[i + 1] = ":" /\ s[i + 2] = "\\"
  THEN SegmentsEnd(s, i + 3)
  ELSE 0

\* The combined pattern at index i: the alternatives in order; the first
\* three are inside the pattern's one group, the Windows one is not.
\* [end |-> 0] when nothing matches here.
MatchAt(s, i) ==
  IF DotSlashEnd(s, i) > 0 THEN [end |-> DotSlashEnd(s, i), group |-> TRUE]
  ELSE IF SlashEnd(s, i) > 0 THEN [end |-> SlashEnd(s, i), group |-> TRUE]
  ELSE IF TokenEnd(s, i) > 0 THEN [end |-> TokenEnd(s, i), group |-> TRUE]
  ELSE [end |-> WindowsEnd(s, i), group |-> FALSE]

\* The non-overlapping matches from index i on, leftmost first:
\* <<first index, last index, the group took part>>
RECURSIVE MatchSpans(_, _)
MatchSpans(s, i) ==
  IF i > Len(s) THEN <<>>
  ELSE LET m == MatchAt(s, i)
       IN  IF m.end = 0 THEN MatchSpans(s, i + 1)
           ELSE <<<<i, m.end, m.group>>>> \o MatchSpans(s, m.end + 1)

\* A value of the match list, with its Python type.
Str(v) == [type |-> "str", value |-> v]

\* re.findall with a pattern of one group: the group's text for each match,
\* the empty string for a match the group took no part in.
re_findall(s) ==
  LET spans == MatchSpans(s, 1)
  IN  [n \in 1..Len(spans) |->
         IF spans[n][3] THEN Str(SubSeq(s, spans[n][1], spans[n][2])) ELSE Str(<<>>)]

\* all([[isinstance(p, str)] for p in matches]): all() of a list whose
\* elements are one-element lists, each of them truthy because it is not empty.
isinstance_str(p) == p.type = "str"
truthy_list(l) == Len(l) > 0
all_isinstance(ms) == \A n \in 1..Len(ms) : truthy_list(<<isinstance_str(ms[n])>>)

\* The variables of main() at rest, for the specifications of the functions
\* main() does not call.
MainIdle ==
  /\ api = "openai" /\ OpenAI = TRUE /\ genai = TRUE /\ config_file = "ok"
  /\ stdin = <<>> /\ cursor_position = 0
  /\ buffer = <<>> /\ buffer_prefix = <<>> /\ buffer_suffix = <<>>
  /\ full_command = <<>> /\ line_prefix = <<>>
  /\ request = <<>> /\ response = <<>> /\ completion = <<>>
  /\ calls = 0 /\ written = {} /\ messages = <<>> /\ stdout = <<>>
  /\ exit_status = "running"

FrameOfPaths ==
  UNCHANGED <<api, OpenAI, genai, config_file, stdin, cursor_position, buffer,
              buffer_prefix, buffer_suffix, full_command, line_prefix, request,
              response, completion, calls, written, stdout, exit_status, class_vars>>

\* create_completion.extract_paths: matches = re.findall(combined_pattern, text)
FindAll ==
  /\ pc = "findall"
  /\ matches' = re_findall(text)
  /\ pc' = "check"
  /\ UNCHANGED <<text, extracted, messages>>
  /\ FrameOfPaths

\* extract_paths.extract_paths: the same, and the two print() calls
FindAllAndPrint ==
  /\ pc = "findall"
  /\ matches' = re_findall(text)
  /\ messages' = messages \o <<"matches", "isinstance_list">>
  /\ pc' = "check"
  /\ UNCHANGED <<text, extracted>>
  /\ FrameOfPaths

\* if not all([[isinstance(p, str)] for p in matches]): warn, return []
CheckMatches ==
  /\ pc = "check"
  /\ IF ~all_isinstance(matches)
     THEN /\ messages' = Append(messages, "warning_failed_to_extract")
          /\ extracted' = <<>>
     ELSE /\ extracted' = matches
          /\ UNCHANGED messages
  /\ pc' = "returned"
  /\ UNCHANGED <<text, matches>>
  /\ FrameOfPaths

InitPaths ==
  /\ pc = "findall"
  /\ text \in StrUpTo(PathAlphabet, MaxText)
  /\ matches = <<>> /\ extracted = <<>>
  /\ paths = <<>> /\ cwd = <<>> /\ fs = <<>> /\ valid_dirs = <<>> /\ valid_files = <<>>
  /\ MainIdle

NextPaths == FindAll \/ FindAllAndPrint \/ CheckMatches

SpecPaths == InitPaths /\ [][NextPaths]_vars

\* The check of the match list on its own, over the values a match list can
\* hold: re.findall gives strings for a pattern of at most one group and
\* tuples of strings for a pattern of several.
MatchValues ==
  { Str(<<>>), Str(<<"/", "a">>),
    [type |-> "tuple", value |-> <<<<"/", "a">>, <<>>>>],
    [type |-> "NoneType", value |-> <<>>] }

RECURSIVE ListsUpTo(_, _)
ListsUpTo(S, n) ==
  IF n = 0 THEN {<<>>}
  ELSE LET L == ListsUpTo(S, n - 1)
       IN  L \cup {Append(l, x) : l \in {t \in L : Len(t) = n - 1}, x \in S}

InitGuard ==
  /\ pc = "check"
  /\ matches \in ListsUpTo(MatchValues, MaxMatches)
  /\ text = <<>> /\ extracted = <<>>
  /\ paths = <<>> /\ cwd = <<>> /\ fs = <<>> /\ valid_dirs = <<>> /\ valid_files = <<>>
  /\ MainIdle

NextGuard == CheckMatches

SpecGuard == InitGuard /\ [][NextGuard]_vars

\* C6 as claimed: extract_paths returns, for each match of the combined
\* pattern in order, the matched substring itself: a Windows-like path in
\* the text is returned as that path.
C6_ReturnsMatchedSubstrings ==
  pc = "returned" =>
    LET spans == MatchSpans(text, 1)
    IN  /\ Len(extracted) = Len(spans)
        /\ \A n \in 1..Len(spans) :
             extracted[n] = Str(SubSeq(text, spans[n][1], spans[n][2]))

os_path_join(c, path) ==
  IF path # <<>> /\ path[1] = "/" THEN path
  ELSE IF c = <<>> \/ c[Len(c)] = "/" THEN c \o path
  ELSE c \o <<"/">> \o path

\* os.path.isdir and os.path.exists on a filesystem f: path -> kind
os_path_isdir(f, path) == f[path] = "dir"
os_path_exists(f, path) == f[path] # "absent"

RECURSIVE extract_valid_dirs(_, _, _)
extract_valid_dirs(ps, c, f) ==
  IF ps = <<>> THEN <<>>
  ELSE (IF os_path_isdir(f, os_path_join(c, Head(ps))) THEN <<<<Head(ps)>>>> ELSE <<>>)
         \o extract_valid_dirs(Tail(ps), c, f)

RECURSIVE extract_valid_files_any(_, _, _)
extract_valid_files_any(ps, c, f) ==
  IF ps = <<>> THEN <<>>
  ELSE (IF os_path_exists(f, os_path_join(c, Head(ps))) THEN <<<<Head(ps)>>>> ELSE <<>>)
         \o extract_valid_files_any(Tail(ps), c, f)

RECURSIVE extract_valid_files(_, _, _)
extract_valid_files(ps, c, f) ==
  IF ps = <<>> THEN <<>>
  ELSE (IF os_path_exists(f, os_path_join(c, Head(ps)))
           /\ ~os_path_isdir(f, os_path_join(c, Head(ps)))
        THEN <<<<Head(ps)>>>> ELSE <<>>)
         \o extract_valid_files(Tail(ps), c, f)

\* The candidates, the working directories and what a path can be on disk.
PathCandidates == {<<"a">>, <<"b">>, <<"/", "a">>}
WorkingDirs == {<<>>, <<"/">>, <<"d">>}
Kinds == {"absent", "file", "dir"}
ResolvedUnder(c) == {os_path_join(c, path) : path \in PathCandidates}

FrameOfClassify ==
  UNCHANGED <<api, OpenAI, genai, config_file, stdin, cursor_position, buffer,
              buffer_prefix, buffer_suffix, full_command, line_prefix, request,
              response, completion, calls, written, messages, stdout, exit_status,
              path_vars, paths, cwd, fs>>

ExtractValidDirs ==
  /\ pc = "valid_dirs"
  /\ valid_dirs' = extract_valid_dirs(paths, cwd, fs)
  /\ pc' = "valid_files"
  /\ UNCHANGED valid_files
  /\ FrameOfClassify

ExtractValidFiles ==
  /\ pc = "valid_files"
  /\ valid_files' = extract_valid_files(paths, cwd, fs)
  /\ pc' = "classified"
  /\ UNCHANGED valid_dirs
  /\ FrameOfClassify

InitClassify ==
  /\ pc = "valid_dirs"
  /\ paths \in ListsUpTo(PathCandidates, MaxPaths)
  /\ cwd \in WorkingDirs
  /\ fs \in [ResolvedUnder(cwd) -> Kinds]
  /\ valid_dirs = <<>> /\ valid_files = <<>>
  /\ text = <<>> /\ matches = <<>> /\ extracted = <<>>
  /\ MainIdle

NextClassify == ExtractValidDirs \/ ExtractValidFiles

SpecClassify == InitClassify /\ [][NextClassify]_vars

\* C7: after both functions ran on the same paths and cwd, valid_dirs holds
\* (each wrapped in a one-element list, in input order) exactly the candidates
\* that resolve to a directory, valid_files exactly those that resolve to
\* something that exists and is no directory, and no candidate is in both.
KindOf(path) == fs[os_path_join(cwd, path)]
IsDirCandidate(path) == KindOf(path) = "dir"
IsFileCandidate(path) == KindOf(path) \notin {"absent", "dir"}
Wrapped(ps) == [n \in 1..Len(ps) |-> <<ps[n]>>]

C7_Classification ==
  pc = "classified" =>
    /\ valid_dirs = Wrapped(SelectSeq(paths, IsDirCandidate))
    /\ valid_files = Wrapped(SelectSeq(paths, IsFileCandidate))
    /\ \A i \in 1..Len(valid_dirs), j \in 1..Len(valid_files) :
         valid_dirs[i] # valid_files[j]

\* C7 witness: one list held a directory, a file and a path that does not
\* exist.
C7_Witness ==
  /\ pc = "classified"
  /\ valid_dirs # <<>> /\ valid_files # <<>>
  /\ \E n \in 1..Len(paths) : KindOf(paths[n]) = "absent"

====
